---- MODULE Spec2Model ----
(***************************************************************************)
(* Vectrude3D: the shape store (src/store.ts), the boolean evaluator       *)
(* (src/services/csgService.ts), the display path (ShapeRenderer) and the  *)
(* handlers of the toolbar, the drawing plane and the property panel.      *)
(*                                                                         *)
(* Numbers.  Lengths are integers counting quarters of a world unit, so    *)
(* the drawing grid of Viewport.getSnappedPoint (half a world unit) is the *)
(* even integers and the midpoint of two snapped points is an integer.     *)
(* Angles are integers counting quarter turns (Math.PI / 2 is 1), so every *)
(* rotation matrix has entries in {-1, 0, 1} and is exact.                 *)
(*                                                                         *)
(* Geometry.  A THREE.BufferGeometry is the set of grid points (even steps *)
(* from its first vertex) that the solid covers, a flat extrusion being    *)
(* one layer of points.  The three-bvh-csg Evaluator is the point-set      *)
(* algebra of the two brushes placed by their matrices.                    *)
(***************************************************************************)
EXTENDS Integers, Sequences, FiniteSets, TLC

VARIABLES shapes, selectedIds, nextId, last, mode, dragStart,
          drawingPoints, plane, isGenerating, request, aiPrompt

vars == <<shapes, selectedIds, nextId, last, mode, dragStart,
          drawingPoints, plane, isGenerating, request, aiPrompt>>

(* Bounds of the exploration. *)
MaxIds == 4
MaxShapes == 3
MaxOperands == 3
MaxCalls == 1

Operations == {"union", "subtract", "intersect"}

(* The id of a click that missed every shape: selectShape('', false). *)
EmptyId == 0

-----------------------------------------------------------------------------
(* Vectors and matrices (THREE.Vector3, THREE.Matrix4 restricted to rigid  *)
(* transforms: a 3x3 rotation r and a translation t).                      *)

Abs(n) == IF n < 0 THEN -n ELSE n

Min2(a, b) == IF a < b THEN a ELSE b

Max2(a, b) == IF a < b THEN b ELSE a

Cos(q) == CASE q % 4 = 0 -> 1 [] q % 4 = 1 -> 0 [] q % 4 = 2 -> -1 [] OTHER -> 0

Sin(q) == CASE q % 4 = 0 -> 0 [] q % 4 = 1 -> 1 [] q % 4 = 2 -> 0 [] OTHER -> -1

Matrix4 == [r |-> <<<<1, 0, 0>>, <<0, 1, 0>>, <<0, 0, 1>>>>, t |-> <<0, 0, 0>>]

Mul3(a, b) == [i \in 1..3 |-> [j \in 1..3 |->
                 a[i][1] * b[1][j] + a[i][2] * b[2][j] + a[i][3] * b[3][j]]]

Apply3(a, v) == [i \in 1..3 |-> a[i][1] * v[1] + a[i][2] * v[2] + a[i][3] * v[3]]

Add3(u, v) == [i \in 1..3 |-> u[i] + v[i]]

makeRotationX(q) ==
    [r |-> <<<<1, 0, 0>>, <<0, Cos(q), -Sin(q)>>, <<0, Sin(q), Cos(q)>>>>,
     t |-> <<0, 0, 0>>]

makeRotationY(q) ==
    [r |-> <<<<Cos(q), 0, Sin(q)>>, <<0, 1, 0>>, <<-Sin(q), 0, Cos(q)>>>>,
     t |-> <<0, 0, 0>>]

makeRotationZ(q) ==
    [r |-> <<<<Cos(q), -Sin(q), 0>>, <<Sin(q), Cos(q), 0>>, <<0, 0, 1>>>>,
     t |-> <<0, 0, 0>>]

multiplyMatrices(a, b) ==
    [r |-> Mul3(a.r, b.r), t |-> Add3(Apply3(a.r, b.t), a.t)]

applyMatrix4(m, v) == Add3(Apply3(m.r, v), m.t)

(* new Euler(x, y, z) in the default order 'XYZ', as a rotation. *)
setFromEuler(rotation) ==
    multiplyMatrices(makeRotationX(rotation[1]),
        multiplyMatrices(makeRotationY(rotation[2]), makeRotationZ(rotation[3])))

(* Matrix4.compose(position, quaternion, (1, 1, 1)). *)
compose(position, quaternion) == [r |-> quaternion.r, t |-> position]

-----------------------------------------------------------------------------
(* Geometry: THREE.Shape, THREE.ExtrudeGeometry, BufferGeometry.            *)

Has(shape, field) == field \in DOMAIN shape

(* The grid points from lo to hi that lie an even number of steps from     *)
(* anchor.                                                                 *)
Grid(lo, hi, anchor) == {x \in lo..hi : (x - anchor) % 2 = 0}

SetMin(S) == CHOOSE x \in S : \A y \in S : x <= y

SetMax(S) == CHOOSE x \in S : \A y \in S : y <= x

(* moveTo(-w/2, -h/2), lineTo(w/2, -h/2), lineTo(w/2, h/2), ...: the       *)
(* rectangle with corners (+-w/2, +-h/2).                                  *)
rectanglePath(w, h) ==
    LET x0 == Min2((-w) \div 2, w \div 2)
        x1 == Max2((-w) \div 2, w \div 2)
        y0 == Min2((-h) \div 2, h \div 2)
        y1 == Max2((-h) \div 2, h \div 2)
    IN  {<<x, y>> : x \in Grid(x0, x1, x0), y \in Grid(y0, y1, y0)}

(* absarc(0, 0, radius, 0, 2 * PI): the disc of that radius at the origin. *)
absarc(radius) ==
    {p \in Grid(-Abs(radius), Abs(radius), 0) \X Grid(-Abs(radius), Abs(radius), 0) :
        p[1] * p[1] + p[2] * p[2] <= radius * radius}

(* Twice the signed area of the triangle a, b, p. *)
Cross(a, b, p) == (b[1] - a[1]) * (p[2] - a[2]) - (b[2] - a[2]) * (p[1] - a[1])

(* moveTo(points[0]), lineTo(points[i]) ..., lineTo(points[0]): the region *)
(* bounded by the closed contour (a convex contour in either direction).   *)
polygonPath(points) ==
    LET n == Len(points)
        xs == {points[i][1] : i \in 1..n}
        ys == {points[i][2] : i \in 1..n}
        next(i) == IF i = n THEN 1 ELSE i + 1
    IN  {p \in Grid(SetMin(xs), SetMax(xs), points[1][1])
               \X Grid(SetMin(ys), SetMax(ys), points[1][2]) :
            \/ \A i \in 1..n : Cross(points[i], points[next(i)], p) >= 0
            \/ \A i \in 1..n : Cross(points[i], points[next(i)], p) <= 0}

(* The THREE.Shape that performCSG builds for a shape that is not a baked  *)
(* mesh; no branch taken leaves the empty path.                            *)
shapePath(shape) ==
    IF shape.type = "rectangle" /\ Has(shape, "width") /\ shape.width # 0
          /\ Has(shape, "height") /\ shape.height # 0
      THEN rectanglePath(shape.width, shape.height)
    ELSE IF shape.type = "circle" /\ Has(shape, "radius") /\ shape.radius # 0
      THEN absarc(shape.radius)
    ELSE IF shape.type = "polygon" /\ Has(shape, "points")
      THEN polygonPath(shape.points)
    ELSE {}

(* shape.points[0][0] on an empty points array is a TypeError.             *)
pathThrows(shape) ==
    /\ ~(shape.type = "custom" /\ Has(shape, "geometryData"))
    /\ ~(shape.type = "rectangle" /\ Has(shape, "width") /\ shape.width # 0
           /\ Has(shape, "height") /\ shape.height # 0)
    /\ ~(shape.type = "circle" /\ Has(shape, "radius") /\ shape.radius # 0)
    /\ shape.type = "polygon" /\ Has(shape, "points")
    /\ Len(shape.points) = 0

(* new THREE.ExtrudeGeometry(s, {depth, bevelEnabled: false}): the path    *)
(* swept along local z from 0 to depth.                                    *)
ExtrudeGeometry(s, depth) ==
    {<<p[1], p[2], z>> : p \in s, z \in Grid(Min2(0, depth), Max2(0, depth), 0)}

(* BufferGeometry.toJSON() and BufferGeometryLoader.parse(). *)
toJSON(geometry) ==
    [type |-> "BufferGeometry", data |-> [attributes |-> [position |-> geometry]]]

parse(json) == json.data.attributes.position

(* geometry.translate(x, y, z) *)
translate(geometry, v) == {Add3(p, v) : p \in geometry}

getCenter_min(geometry) ==
    IF geometry = {} THEN <<0, 0, 0>>
    ELSE [i \in 1..3 |-> SetMin({p[i] : p \in geometry})]

(* computeBoundingBox() and boundingBox.getCenter(center); the centre of   *)
(* an empty box is (0, 0, 0).                                              *)
getCenter(geometry) ==
    IF geometry = {} THEN <<0, 0, 0>>
    ELSE [i \in 1..3 |->
            (SetMin({p[i] : p \in geometry}) + SetMax({p[i] : p \in geometry})) \div 2]

-----------------------------------------------------------------------------
(* performCSG (src/services/csgService.ts).                                *)

shapeGeometry(shape) ==
    IF shape.type = "custom" /\ Has(shape, "geometryData")
      THEN parse(shape.geometryData)
      ELSE ExtrudeGeometry(shapePath(shape), shape.extrusionDepth)

inherentRot(shape) ==
    IF shape.type # "custom" THEN makeRotationX(1) ELSE Matrix4

userMatrix(shape) == compose(shape.position, setFromEuler(shape.rotation))

brushMatrix_swapped(shape) == multiplyMatrices(inherentRot(shape), userMatrix(shape))

(* brush.matrix.multiplyMatrices(userMatrix, inherentRot) *)
brushMatrix(shape) == multiplyMatrices(userMatrix(shape), inherentRot(shape))

Brush(shape) ==
    [geometry |-> shapeGeometry(shape), matrix |-> brushMatrix(shape),
     color |-> shape.color]

(* The solid of a brush in world space. *)
worldGeometry(brush) == {applyMatrix4(brush.matrix, v) : v \in brush.geometry}

csgMode(operation) ==
    CASE operation = "union" -> "ADDITION"
      [] operation = "subtract" -> "SUBTRACTION"
      [] operation = "intersect" -> "INTERSECTION"

evaluate_swapped(a, b, op) ==
    [geometry |->
        CASE op = "ADDITION" -> worldGeometry(b) \cup worldGeometry(a)
          [] op = "SUBTRACTION" -> worldGeometry(b) \ worldGeometry(a)
          [] op = "INTERSECTION" -> worldGeometry(b) \cap worldGeometry(a),
     matrix |-> Matrix4,
     color |-> a.color]

(* Evaluator.evaluate(a, b, mode): a new brush holding the result in world *)
(* space.                                                                  *)
evaluate(a, b, op) ==
    [geometry |->
        CASE op = "ADDITION" -> worldGeometry(a) \cup worldGeometry(b)
          [] op = "SUBTRACTION" -> worldGeometry(a) \ worldGeometry(b)
          [] op = "INTERSECTION" -> worldGeometry(a) \cap worldGeometry(b),
     matrix |-> Matrix4,
     color |-> a.color]

(* let resultBrush = brushes[0]; for (i = 1; i < brushes.length; i++)      *)
(*   resultBrush = evaluator.evaluate(resultBrush, brushes[i], mode)       *)
(* (sequences here start at 1).                                            *)
RECURSIVE foldBrushes(_, _, _, _)
foldBrushes(brushes, i, resultBrush, operation) ==
    IF i > Len(brushes) THEN resultBrush
    ELSE foldBrushes(brushes, i + 1,
                     evaluate(resultBrush, brushes[i], csgMode(operation)),
                     operation)

(* What a call leaves behind: null, a shape, or an exception, and the      *)
(* operand objects as they are when the call ends.                         *)
Null(inputs) == [kind |-> "null", inputs |-> inputs]

Thrown(inputs) == [kind |-> "throw", inputs |-> inputs]

Returned_aliased(shape, inputs) ==
    [kind |-> "shape", shape |-> shape,
     inputs |-> [inputs EXCEPT ![1].position = shape.position]]

Returned(shape, inputs) == [kind |-> "shape", shape |-> shape, inputs |-> inputs]

operationName(operation) ==
    CASE operation = "union" -> "CSG union"
      [] operation = "subtract" -> "CSG subtract"
      [] operation = "intersect" -> "CSG intersect"

uuidv4_count == Len(shapes) + 1

(* uuidv4(): an id no earlier call returned. *)
uuidv4 == nextId

tooFew_one(operands) == Len(operands) < 1

(* if (shapes.length < 2) return null; *)
tooFew(operands) == Len(operands) < 2

resultShape_reuseId(id, operation, center, operands, geometry) ==
    [id |-> operands[1].id,
     name |-> operationName(operation),
     type |-> "custom",
     position |-> center,
     rotation |-> <<0, 0, 0>>,
     color |-> operands[1].color,
     extrusionDepth |-> 0,
     visible |-> TRUE,
     geometryData |-> toJSON(geometry)]

resultShape_lastColor(id, operation, center, operands, geometry) ==
    [id |-> id,
     name |-> operationName(operation),
     type |-> "custom",
     position |-> center,
     rotation |-> <<0, 0, 0>>,
     color |-> operands[Len(operands)].color,
     extrusionDepth |-> 0,
     visible |-> TRUE,
     geometryData |-> toJSON(geometry)]

(* The shape literal that performCSG returns. *)
resultShape(id, operation, center, operands, geometry) ==
    [id |-> id,
     name |-> operationName(operation),
     type |-> "custom",
     position |-> center,
     rotation |-> <<0, 0, 0>>,
     color |-> operands[1].color,
     extrusionDepth |-> 0,
     visible |-> TRUE,
     geometryData |-> toJSON(geometry)]

performCSG(operands, operation) ==
    IF tooFew(operands) THEN Null(operands)
    ELSE IF \E i \in 1..Len(operands) : pathThrows(operands[i]) THEN Thrown(operands)
    ELSE
      LET brushes == [i \in 1..Len(operands) |-> Brush(operands[i])]
          resultBrush == foldBrushes(brushes, 2, brushes[1], operation)
          resultGeometry == resultBrush.geometry
          center == getCenter(resultGeometry)
      IN  Returned(resultShape(uuidv4, operation, center, operands,
                       translate(resultGeometry,
                                 <<-center[1], -center[2], -center[3]>>)),
                   operands)

-----------------------------------------------------------------------------
(* The display path: ShapeRenderer, of which the repository holds an       *)
(* earlier version (1) and a later version (2).                            *)

RendererVersions == {1, 2}

(* new THREE.ShapeGeometry(s): the flat face of the path.                  *)
ShapeGeometry(s) == {<<p[1], p[2], 0>> : p \in s}

(* The THREE.Shape of the renderer; a polygon needs points.length > 0.     *)
displayPath(shape) ==
    IF shape.type = "rectangle" /\ Has(shape, "width") /\ shape.width # 0
          /\ Has(shape, "height") /\ shape.height # 0
      THEN rectanglePath(shape.width, shape.height)
    ELSE IF shape.type = "circle" /\ Has(shape, "radius") /\ shape.radius # 0
      THEN absarc(shape.radius)
    ELSE IF shape.type = "polygon" /\ Has(shape, "points") /\ Len(shape.points) > 0
      THEN polygonPath(shape.points)
    ELSE {}

(* The geometry memo: version 1 extrudes only when extrusionDepth > 0,     *)
(* version 2 always.                                                       *)
displayGeometry(version, shape) ==
    IF shape.type = "custom" /\ Has(shape, "geometryData")
      THEN parse(shape.geometryData)
    ELSE IF version = 1 /\ ~(shape.extrusionDepth > 0)
      THEN ShapeGeometry(displayPath(shape))
    ELSE ExtrudeGeometry(displayPath(shape), shape.extrusionDepth)

(* The rotation prop of the mesh: version 1 turns every shape that is not  *)
(* custom by Math.PI / 2 about X, version 2 has no rotation prop.          *)
visualRotation(version, shape) ==
    IF version = 1 /\ shape.type # "custom" THEN makeRotationX(1) ELSE Matrix4

(* <group position={shape.position} rotation={shape.rotation}><mesh ...>   *)
displayMatrix(version, shape) ==
    multiplyMatrices(compose(shape.position, setFromEuler(shape.rotation)),
                     visualRotation(version, shape))

(* The solid on screen, in world space.                                    *)
displaySolid(version, shape) ==
    {applyMatrix4(displayMatrix(version, shape), v) : v \in displayGeometry(version, shape)}

-----------------------------------------------------------------------------
(* The shapes the drawing tools add (src/components/Viewport.tsx).         *)

(* planeRotation / the rotation handlePointerUp gives a drawn shape.       *)
viewRotation(view) ==
    CASE view = "front" -> <<0, 0, 0>>
      [] view = "left" -> <<0, -1, 0>>
      [] OTHER -> <<-1, 0, 0>>

Midpoint(a, b) == [i \in 1..3 |-> (a[i] + b[i]) \div 2]

(* handlePointerUp in mode draw_rect, from the snapped start and current   *)
(* points of the drag.                                                     *)
drawRectangle(id, view, startPoint, currentPoint) ==
    LET dx == Abs(currentPoint[1] - startPoint[1])
        dy == Abs(currentPoint[2] - startPoint[2])
        dz == Abs(currentPoint[3] - startPoint[3])
    IN  [id |-> id, name |-> "Rectangle", type |-> "rectangle",
         position |-> Midpoint(startPoint, currentPoint),
         rotation |-> viewRotation(view),
         color |-> "#9ca3af", extrusionDepth |-> 0, visible |-> TRUE,
         width |-> IF view = "left" THEN dz ELSE dx,
         height |-> IF view \in {"front", "left"} THEN dy ELSE dz]

(* handlePointerUp in mode draw_circle: radius is                          *)
(* startPoint.distanceTo(currentPoint), an integer for the drags explored. *)
drawCircle(id, view, startPoint, currentPoint) ==
    LET dx == Abs(currentPoint[1] - startPoint[1])
        dy == Abs(currentPoint[2] - startPoint[2])
        dz == Abs(currentPoint[3] - startPoint[3])
    IN  [id |-> id, name |-> "Circle", type |-> "circle",
         position |-> startPoint,
         rotation |-> viewRotation(view),
         color |-> "#9ca3af", extrusionDepth |-> 0, visible |-> TRUE,
         radius |-> CHOOSE r \in 0..(dx + dy + dz) :
                       r * r = dx * dx + dy * dy + dz * dz]

RECURSIVE SumSeq(_, _)
SumSeq(seq, k) == IF seq = <<>> THEN 0 ELSE Head(seq)[k] + SumSeq(Tail(seq), k)

(* handleDoubleClick in mode draw_poly with at least 3 pending points.     *)
drawPolygon(id, view, points) ==
    LET cx == SumSeq(points, 1) \div Len(points)
        cy == SumSeq(points, 2) \div Len(points)
    IN  [id |-> id, name |-> "Polygon", type |-> "polygon",
         position |-> CASE view = "front" -> <<cx, cy, 0>>
                        [] view = "left" -> <<0, cy, cx>>
                        [] OTHER -> <<cx, 0, cy>>,
         rotation |-> viewRotation(view),
         color |-> "#9ca3af", extrusionDepth |-> 0, visible |-> TRUE,
         points |-> [i \in 1..Len(points) |->
                       <<points[i][1] - cx, points[i][2] - cy>>]]

(* { ...s, ...updates } *)
spread(s, updates) ==
    [f \in DOMAIN s \cup DOMAIN updates |-> IF f \in DOMAIN updates THEN updates[f] ELSE s[f]]

(* generateShapesFromPrompt: a shape of the parsed response with its id,   *)
(* visible and the defaults of rotation and points.                        *)
generatedShape(id, s) ==
    spread(s, [id |-> id, visible |-> TRUE,
               rotation |-> IF Has(s, "rotation") THEN s.rotation ELSE <<0, 0, 0>>,
               points |-> IF Has(s, "points") THEN s.points ELSE <<>>])

(* The shapes explored: the n-th shape added is a unit square drawn on the *)
(* ground, a disc drawn inside it, a triangle drawn in the left view, or a *)
(* generated polygon whose response carried no points.                     *)
NewShapes(id) ==
    CASE id % 4 = 1 -> {drawRectangle(id, "top", <<-2, 0, -2>>, <<2, 0, 2>>)}
      [] id % 4 = 2 -> {drawCircle(id, "top", <<0, 0, 0>>, <<2, 0, 0>>)}
      [] id % 4 = 3 -> {drawPolygon(id, "left", <<<<0, 0>>, <<6, 0>>, <<0, 6>>>>)}
      [] OTHER -> {generatedShape(id, [type |-> "polygon", name |-> "Blob",
                                       position |-> <<0, 0, 0>>, color |-> "#00ff00",
                                       extrusionDepth |-> 4])}

(* The edit of the property panel explored: a colour.                      *)
Updates == { [color |-> "#ff0000"] }

-----------------------------------------------------------------------------
(* The store (src/store.ts).                                               *)

includes(seq, x) == \E i \in 1..Len(seq) : seq[i] = x

ShapeIds == {shapes[i].id : i \in 1..Len(shapes)}

Undefined == [kind |-> "undefined"]

(* state.shapes.find(s => s.id === id) *)
find(id) ==
    IF \E i \in 1..Len(shapes) : shapes[i].id = id
      THEN shapes[SetMin({i \in 1..Len(shapes) : shapes[i].id = id})]
      ELSE Undefined

(* PropertyPanel: shapes.find(s => s.id === selectedIds[0]) *)
selectedShape == IF selectedIds = <<>> THEN Undefined ELSE find(selectedIds[1])

(* The record of the last operation when it was not a boolean evaluation.  *)
NoCall == [op |-> "none"]

(* performBoolean returned before it called performCSG. *)
NotCalled == [kind |-> "none"]

(* dragStart.current = null in ShapeRenderer: no extrude drag in progress.  *)
NoDrag == [kind |-> "null"]

(* startPoint and currentPoint of the DrawingPlane when they are null.     *)
NoPoint == <<>>

(* The local state of the DrawingPlane when no drag is in progress.        *)
NoSketch == [isDrawing |-> FALSE, startPoint |-> NoPoint, currentPoint |-> NoPoint]

(* No call of generateShapesFromPrompt is awaited.                         *)
NoRequest == [state |-> "none"]

(* useState('') of the prompt, a string being the sequence of its          *)
(* characters.                                                             *)
EmptyPrompt == <<>>

Init ==
    /\ shapes = <<>>
    /\ selectedIds = <<>>
    /\ nextId = 1
    /\ last = NoCall
    /\ mode = "select"
    /\ dragStart = NoDrag
    /\ drawingPoints = <<>>
    /\ plane = NoSketch
    /\ isGenerating = FALSE
    /\ request = NoRequest
    /\ aiPrompt = EmptyPrompt

addShape(shape) ==
    /\ nextId <= MaxIds
    /\ Len(shapes) < MaxShapes
    /\ shape.id = uuidv4
    /\ shapes' = Append(shapes, shape)
    /\ nextId' = nextId + 1
    /\ last' = NoCall
    /\ UNCHANGED <<selectedIds, mode, dragStart, drawingPoints, plane, isGenerating, request, aiPrompt>>

updateShape(id, updates) ==
    /\ shapes' = [i \in 1..Len(shapes) |->
                    IF shapes[i].id = id THEN spread(shapes[i], updates) ELSE shapes[i]]
    /\ last' = NoCall
    /\ UNCHANGED <<selectedIds, nextId, mode, dragStart, drawingPoints, plane, isGenerating, request, aiPrompt>>

removeShape(id) ==
    /\ shapes' = SelectSeq(shapes, LAMBDA s : s.id # id)
    /\ selectedIds' = SelectSeq(selectedIds, LAMBDA sid : sid # id)
    /\ last' = NoCall
    /\ UNCHANGED <<nextId, mode, dragStart, drawingPoints, plane, isGenerating, request, aiPrompt>>

selectShape(id, multi) ==
    /\ selectedIds' =
         IF multi
           THEN IF includes(selectedIds, id)
                  THEN SelectSeq(selectedIds, LAMBDA sid : sid # id)
                  ELSE Append(selectedIds, id)
           ELSE <<id>>
    /\ last' = NoCall
    /\ UNCHANGED <<shapes, nextId, mode, dragStart, drawingPoints, plane, isGenerating, request, aiPrompt>>

(* state.shapes.SelectSeq(s => state.selectedIds.includes(s.id)) *)
selectedShapes == SelectSeq(shapes, LAMBDA s : includes(selectedIds, s.id))

orderedSelection_listOrder == selectedShapes

(* selectedIds mapped to the shapes they name, the unresolved ids dropped. *)
orderedSelection ==
    SelectSeq([i \in 1..Len(selectedIds) |-> find(selectedIds[i])],
           LAMBDA s : s # Undefined)

performBoolean_keepOperands(type) ==
    /\ UNCHANGED <<mode, dragStart, drawingPoints, plane, isGenerating, request, aiPrompt>>
    /\ IF Len(orderedSelection) < 2
      THEN /\ last' = [op |-> "performBoolean", type |-> type,
                       operands |-> orderedSelection, result |-> NotCalled]
           /\ UNCHANGED <<shapes, selectedIds, nextId>>
      ELSE LET result == performCSG(orderedSelection, type)
           IN  /\ last' = [op |-> "performBoolean", type |-> type,
                           operands |-> orderedSelection, result |-> result]
               /\ IF result.kind = "shape"
                    THEN /\ nextId <= MaxIds
                         /\ shapes' = Append(shapes, result.shape)
                         /\ selectedIds' = <<result.shape.id>>
                         /\ nextId' = nextId + 1
                    ELSE UNCHANGED <<shapes, selectedIds, nextId>>

performBoolean_eagerRemove(type) ==
    /\ UNCHANGED <<mode, dragStart, drawingPoints, plane, isGenerating, request, aiPrompt>>
    /\ IF Len(orderedSelection) < 2
      THEN /\ last' = [op |-> "performBoolean", type |-> type,
                       operands |-> orderedSelection, result |-> NotCalled]
           /\ shapes' = SelectSeq(shapes, LAMBDA s : ~includes(selectedIds, s.id))
           /\ selectedIds' = <<>>
           /\ UNCHANGED nextId
      ELSE LET result == performCSG(orderedSelection, type)
           IN  /\ last' = [op |-> "performBoolean", type |-> type,
                           operands |-> orderedSelection, result |-> result]
               /\ IF result.kind = "shape"
                    THEN /\ nextId <= MaxIds
                         /\ shapes' = Append(SelectSeq(shapes,
                                LAMBDA s : ~includes(selectedIds, s.id)),
                                result.shape)
                         /\ selectedIds' = <<result.shape.id>>
                         /\ nextId' = nextId + 1
                    ELSE UNCHANGED <<shapes, selectedIds, nextId>>

performBoolean(type) ==
    /\ UNCHANGED <<mode, dragStart, drawingPoints, plane, isGenerating, request, aiPrompt>>
    /\ IF Len(orderedSelection) < 2
      THEN /\ last' = [op |-> "performBoolean", type |-> type,
                       operands |-> orderedSelection, result |-> NotCalled]
           /\ UNCHANGED <<shapes, selectedIds, nextId>>
      ELSE LET result == performCSG(orderedSelection, type)
           IN  /\ last' = [op |-> "performBoolean", type |-> type,
                           operands |-> orderedSelection, result |-> result]
               /\ IF result.kind = "shape"
                    THEN /\ nextId <= MaxIds
                         /\ shapes' = Append(SelectSeq(shapes,
                                LAMBDA s : ~includes(selectedIds, s.id)),
                                result.shape)
                         /\ selectedIds' = <<result.shape.id>>
                         /\ nextId' = nextId + 1
                    ELSE UNCHANGED <<shapes, selectedIds, nextId>>

Next ==
    \/ \E shape \in NewShapes(uuidv4) : addShape(shape)
    \/ \E updates \in Updates :
          /\ selectedShape # Undefined
          /\ spread(selectedShape, updates) # selectedShape
          /\ updateShape(selectedShape.id, updates)
    \/ \E id \in ShapeIds : removeShape(id)
    \/ \E id \in ShapeIds : \E multi \in BOOLEAN : selectShape(id, multi)
    \/ selectShape(EmptyId, FALSE)
    \/ \E type \in Operations : performBoolean(type)

Spec == Init /\ [][Next]_vars

-----------------------------------------------------------------------------
(* The application: the handlers of the toolbar, the drawing plane, the    *)
(* property panel and the shapes that call the store.  A pointer's clientY *)
(* counts steps of 5 pixels, so that deltaY * 0.05 world units is deltaY   *)
(* quarters of a unit.                                                     *)

(* Bounds of the exploration of the handlers. *)
MaxCanvas == 2
MaxDepth == 1

(* The tools explored, of the six of the toolbar.                          *)
ToolModes == {"select", "extrude", "draw_rect"}

(* set({ mode, drawingPoints: [] }) *)
setMode(m) ==
    /\ mode' = m
    /\ drawingPoints' = <<>>
    /\ last' = NoCall
    /\ UNCHANGED <<shapes, selectedIds, nextId, dragStart, plane, isGenerating, request, aiPrompt>>

(* The drags of the drawing plane explored, as snapped start and current   *)
(* points: a square on the ground and a drag along one axis.               *)
Drags == { <<<<-2, 0, -2>>, <<2, 0, 2>>>>, <<<<0, 0, 0>>, <<2, 0, 0>>>> }

(* DrawingPlane.handlePointerUp in the top view: a rectangle is added when *)
(* width > 0 && height > 0.                                                *)
DrawingPlane_handlePointerUp(startPoint, currentPoint) ==
    LET shape == drawRectangle(uuidv4, "top", startPoint, currentPoint)
    IN  /\ mode = "draw_rect"
        /\ dragStart = NoDrag
        /\ Len(shapes) < MaxCanvas
        /\ IF shape.width > 0 /\ shape.height > 0
             THEN addShape(shape)
             ELSE UNCHANGED vars

(* The responses of the model explored: none (no key, an error) and one    *)
(* rectangle with a negative extrusionDepth, which the response schema     *)
(* allows.                                                                 *)
RawPit ==
    [type |-> "rectangle", name |-> "Pit", position |-> <<0, 0, 0>>,
     color |-> "#0000ff", extrusionDepth |-> -1, width |-> 4, height |-> 4]

Responses == { <<>>, <<RawPit>> }

(* PropertyPanel.handleGenerate once generateShapesFromPrompt resolved:    *)
(* newShapes.forEach(s => addShape(s)).                                    *)
handleGenerate(rawShapes) ==
    /\ Len(shapes) + Len(rawShapes) <= MaxCanvas
    /\ nextId + Len(rawShapes) - 1 <= MaxIds
    /\ shapes' = shapes \o [i \in 1..Len(rawShapes) |->
                              generatedShape(nextId + i - 1, rawShapes[i])]
    /\ nextId' = nextId + Len(rawShapes)
    /\ last' = NoCall
    /\ isGenerating' = FALSE
    /\ aiPrompt' = EmptyPrompt
    /\ UNCHANGED <<selectedIds, mode, dragStart, drawingPoints, plane, request>>

(* The values typed into the width input and set on the depth slider       *)
(* (min 0, max 20).                                                        *)
PanelWidths == {0}

PanelDepths == {0, 1}

(* onChange of the width input, shown for a selected rectangle:            *)
(* updateShape(selectedShape.id, { width: parseFloat(e.target.value) })    *)
onChangeWidth(value) ==
    /\ dragStart = NoDrag
    /\ selectedShape # Undefined
    /\ selectedShape.type = "rectangle"
    /\ updateShape(selectedShape.id, [width |-> value])

(* onChange of the extrusion depth slider. *)
onChangeExtrusionDepth(value) ==
    /\ dragStart = NoDrag
    /\ selectedShape # Undefined
    /\ updateShape(selectedShape.id, [extrusionDepth |-> value])

(* The clientY of the pointer events on a shape. *)
DownY == 1

MoveYs == {0, 2}

(* ShapeRenderer.handlePointerDown on the shape with this id. *)
ShapeRenderer_handlePointerDown(id, shiftKey, clientY) ==
    /\ dragStart = NoDrag
    /\ IF mode = "extrude"
         THEN /\ dragStart' = [id |-> id, y |-> clientY,
                               startDepth |-> find(id).extrusionDepth]
              /\ last' = NoCall
              /\ UNCHANGED <<shapes, selectedIds, nextId, mode, drawingPoints, plane, isGenerating, request, aiPrompt>>
         ELSE IF mode \in {"select", "edit_vertex"}
           THEN selectShape(id, shiftKey)
           ELSE UNCHANGED vars

(* ShapeRenderer.handlePointerMove of the shape whose drag is in progress: *)
(* newDepth = Math.max(0, startDepth + deltaY * 0.05).                     *)
ShapeRenderer_handlePointerMove(clientY) ==
    /\ mode = "extrude"
    /\ dragStart # NoDrag
    /\ LET deltaY == dragStart.y - clientY
           newDepth == Max2(0, dragStart.startDepth + deltaY)
       IN  /\ newDepth <= MaxDepth
           /\ updateShape(dragStart.id, [extrusionDepth |-> newDepth])

(* ShapeRenderer.handlePointerUp: dragStart.current = null. *)
ShapeRenderer_handlePointerUp ==
    /\ mode = "extrude"
    /\ dragStart # NoDrag
    /\ dragStart' = NoDrag
    /\ last' = NoCall
    /\ UNCHANGED <<shapes, selectedIds, nextId, mode, drawingPoints, plane, isGenerating, request, aiPrompt>>

(* Toolbar.handleDelete (enabled when selectedIds.length > 0):             *)
(* selectedIds.forEach(id => removeShape(id)).                             *)
handleDelete ==
    /\ dragStart = NoDrag
    /\ Len(selectedIds) > 0
    /\ shapes' = SelectSeq(shapes, LAMBDA s : ~includes(selectedIds, s.id))
    /\ selectedIds' = <<>>
    /\ last' = NoCall
    /\ UNCHANGED <<nextId, mode, dragStart, drawingPoints, plane, isGenerating, request, aiPrompt>>

(* Canvas onPointerMissed: a click on no shape deselects in select mode.   *)
onPointerMissed ==
    /\ dragStart = NoDrag
    /\ mode = "select"
    /\ selectShape(EmptyId, FALSE)

(* The Union and Subtract buttons, enabled when selectedIds.length >= 2.   *)
ToolbarOperations == {"union", "subtract"}

onClickBoolean(type) ==
    /\ dragStart = NoDrag
    /\ Len(selectedIds) >= 2
    /\ performBoolean(type)

NextUI ==
    \/ \E m \in ToolModes : dragStart = NoDrag /\ m # mode /\ setMode(m)
    \/ \E drag \in Drags : DrawingPlane_handlePointerUp(drag[1], drag[2])
    \/ \E rawShapes \in Responses : handleGenerate(rawShapes)
    \/ \E value \in PanelWidths : onChangeWidth(value)
    \/ \E value \in PanelDepths : onChangeExtrusionDepth(value)
    \/ \E id \in ShapeIds : \E shiftKey \in BOOLEAN :
          ShapeRenderer_handlePointerDown(id, shiftKey, DownY)
    \/ \E clientY \in MoveYs : ShapeRenderer_handlePointerMove(clientY)
    \/ ShapeRenderer_handlePointerUp
    \/ handleDelete
    \/ onPointerMissed
    \/ \E type \in ToolbarOperations : onClickBoolean(type)

SpecUI == Init /\ [][NextUI]_vars

-----------------------------------------------------------------------------
(* The drawing plane, one pointer event at a time                          *)
(* (DrawingPlane in src/components/Viewport.tsx, always mounted).          *)

(* Bound of the exploration: the pending points of one polygon.            *)
MaxPoints == 3

(* The tools of the drawing plane and the select tool.                     *)
PlaneModes == {"select", "draw_rect", "draw_circle", "draw_poly"}

(* The snapped points explored: the k-th click of a polygon walks the      *)
(* corners of a square, a drag starts at the origin and moves along the    *)
(* diagonal of a 6 by 8 rectangle or not at all.                           *)
PolyClick(k) == <<6 * (k % 2), 0, 6 * ((k \div 2) % 2)>>

DownPoint == <<0, 0, 0>>

MovePoints == { <<0, 0, 0>>, <<6, 0, 8>> }

(* A toolbar button: setMode(tool.id).                                     *)
onClickTool(m) == setMode(m)

(* handlePointerDown with the left button, in the top view.                *)
handlePointerDown(point) ==
    /\ last' = NoCall
    /\ IF mode = "draw_poly"
         THEN /\ Len(drawingPoints) < MaxPoints
              /\ drawingPoints' = Append(drawingPoints, <<point[1], point[3]>>)
              /\ UNCHANGED plane
         ELSE IF mode \in {"draw_rect", "draw_circle"}
           THEN /\ plane' = [isDrawing |-> TRUE, startPoint |-> point,
                             currentPoint |-> point]
                /\ UNCHANGED drawingPoints
           ELSE UNCHANGED <<drawingPoints, plane>>
    /\ UNCHANGED <<shapes, selectedIds, nextId, mode, dragStart, isGenerating, request, aiPrompt>>

(* handlePointerMove: if (!isDrawing || !startPoint) return.               *)
handlePointerMove(point) ==
    /\ plane.isDrawing
    /\ plane.startPoint # NoPoint
    /\ plane' = [plane EXCEPT !.currentPoint = point]
    /\ last' = NoCall
    /\ UNCHANGED <<shapes, selectedIds, nextId, mode, dragStart, drawingPoints,
                   isGenerating, request, aiPrompt>>

(* handlePointerUp in the top view: the drag ends, and a rectangle or a    *)
(* circle of positive size is added.                                       *)
handlePointerUp ==
    LET rectangle == drawRectangle(uuidv4, "top", plane.startPoint, plane.currentPoint)
        circle == drawCircle(uuidv4, "top", plane.startPoint, plane.currentPoint)
    IN  /\ plane.isDrawing
        /\ plane.startPoint # NoPoint
        /\ plane.currentPoint # NoPoint
        /\ plane' = NoSketch
        /\ last' = NoCall
        /\ IF mode = "draw_rect" /\ rectangle.width > 0 /\ rectangle.height > 0
             THEN /\ Len(shapes) < MaxCanvas /\ nextId <= MaxIds
                  /\ shapes' = Append(shapes, rectangle)
                  /\ nextId' = nextId + 1
             ELSE IF mode = "draw_circle" /\ circle.radius > 0
               THEN /\ Len(shapes) < MaxCanvas /\ nextId <= MaxIds
                    /\ shapes' = Append(shapes, circle)
                    /\ nextId' = nextId + 1
               ELSE UNCHANGED <<shapes, nextId>>
        /\ UNCHANGED <<selectedIds, mode, dragStart, drawingPoints, isGenerating, request, aiPrompt>>

(* handleRightClick without the else of its second test: a cancelled drag  *)
(* also clears the points or leaves the tool.                              *)
handleRightClick_noElse ==
    /\ plane' = NoSketch
    /\ IF Len(drawingPoints) > 0
         THEN /\ drawingPoints' = <<>>
              /\ UNCHANGED mode
         ELSE /\ mode' = "select"
              /\ drawingPoints' = <<>>
    /\ last' = [op |-> "handleRightClick"]
    /\ UNCHANGED <<shapes, selectedIds, nextId, dragStart, isGenerating, request, aiPrompt>>

(* handleRightClick: cancel the drag, else clearDrawingPoints(), else      *)
(* setMode('select').                                                      *)
handleRightClick ==
    /\ IF plane.isDrawing
         THEN /\ plane' = NoSketch
              /\ UNCHANGED <<drawingPoints, mode>>
         ELSE IF Len(drawingPoints) > 0
           THEN /\ drawingPoints' = <<>>
                /\ UNCHANGED <<plane, mode>>
           ELSE /\ mode' = "select"
                /\ drawingPoints' = <<>>
                /\ UNCHANGED plane
    /\ last' = [op |-> "handleRightClick"]
    /\ UNCHANGED <<shapes, selectedIds, nextId, dragStart, isGenerating, request, aiPrompt>>

(* handleDoubleClick in the top view: the pending points become a polygon. *)
handleDoubleClick ==
    /\ mode = "draw_poly"
    /\ Len(drawingPoints) >= 3
    /\ Len(shapes) < MaxCanvas /\ nextId <= MaxIds
    /\ shapes' = Append(shapes, drawPolygon(uuidv4, "top", drawingPoints))
    /\ nextId' = nextId + 1
    /\ drawingPoints' = <<>>
    /\ last' = NoCall
    /\ UNCHANGED <<selectedIds, mode, dragStart, plane, isGenerating, request, aiPrompt>>

NextPlane ==
    \/ \E m \in PlaneModes : onClickTool(m)
    \/ handlePointerDown(IF mode = "draw_poly" THEN PolyClick(Len(drawingPoints))
                                               ELSE DownPoint)
    \/ \E point \in MovePoints : handlePointerMove(point)
    \/ handlePointerUp
    \/ handleRightClick
    \/ handleDoubleClick

SpecPlane == Init /\ [][NextPlane]_vars

-----------------------------------------------------------------------------
(* AI generation, one step of the event loop at a time                     *)
(* (PropertyPanel.handleGenerate, services/geminiService.ts).              *)

(* String.prototype.trim, white space being the character " ".             *)
RECURSIVE trimStart(_)
trimStart(str) ==
    IF str # <<>> /\ Head(str) = " " THEN trimStart(Tail(str)) ELSE str

RECURSIVE trimEnd(_)
trimEnd(str) ==
    IF str # <<>> /\ str[Len(str)] = " "
      THEN trimEnd(SubSeq(str, 1, Len(str) - 1))
      ELSE str

trim(str) == trimEnd(trimStart(str))

(* The prompts typed: nothing, white space, a word followed by a space.    *)
Prompts == { <<>>, <<" ">>, <<"a", " ">> }

(* The promise of generateShapesFromPrompt.                                *)
Pending == [state |-> "pending"]

Resolved(value) == [state |-> "resolved", value |-> value]

Rejected == [state |-> "rejected"]

(* The outcomes of ai.models.generateContent explored: the call rejects    *)
(* (network, quota), or fulfils with a response whose text is empty, is    *)
(* not JSON, is a JSON object, or is a JSON array of shapes.               *)
RawDisc ==
    [type |-> "circle", name |-> "Disc", position |-> <<0, 0, 0>>,
     color |-> "#ff0000", extrusionDepth |-> 2, radius |-> 2]

ResponseTexts ==
    { [kind |-> "empty"], [kind |-> "malformed"], [kind |-> "object"] }
      \cup { [kind |-> "array", items |-> items] : items \in Responses \cup {<<RawDisc>>} }

RemoteOutcomes ==
    { [kind |-> "rejected"] }
      \cup { [kind |-> "fulfilled", text |-> text] : text \in ResponseTexts }

(* generateShapesFromPrompt without its try/catch: a rejected call, a      *)
(* SyntaxError of JSON.parse and a TypeError of rawShapes.map reject the   *)
(* promise.                                                                *)
generateShapesFromPrompt_noCatch(outcome) ==
    IF outcome.kind = "rejected" THEN Rejected
    ELSE IF outcome.text.kind = "empty" THEN Resolved(<<>>)
    ELSE IF outcome.text.kind \in {"malformed", "object"} THEN Rejected
    ELSE Resolved([i \in 1..Len(outcome.text.items) |->
                     generatedShape(nextId + i - 1, outcome.text.items[i])])

(* generateShapesFromPrompt after await ai.models.generateContent: the     *)
(* catch logs every error, and the function returns [] unless the text     *)
(* parsed to an array, whose items get an id, visible and the defaults.    *)
generateShapesFromPrompt(outcome) ==
    IF outcome.kind = "rejected" THEN Resolved(<<>>)
    ELSE IF outcome.text.kind = "empty" THEN Resolved(<<>>)
    ELSE IF outcome.text.kind \in {"malformed", "object"} THEN Resolved(<<>>)
    ELSE Resolved([i \in 1..Len(outcome.text.items) |->
                     generatedShape(nextId + i - 1, outcome.text.items[i])])

(* onChange of the prompt input: setAiPrompt(e.target.value).              *)
onChangePrompt(value) ==
    /\ aiPrompt' = value
    /\ last' = NoCall
    /\ UNCHANGED <<shapes, selectedIds, nextId, mode, dragStart, drawingPoints, plane,
                   isGenerating, request>>

(* handleGenerate up to its await, the submit button being enabled when    *)
(* !(isGenerating || !aiPrompt); without an API key generateShapesFromPrompt *)
(* returns [] at once.                                                     *)
handleGenerate_submit(apiKey) ==
    /\ ~isGenerating
    /\ aiPrompt # EmptyPrompt
    /\ IF trim(aiPrompt) = <<>>
         THEN UNCHANGED vars
         ELSE /\ isGenerating' = TRUE
              /\ request' = IF apiKey THEN Pending ELSE Resolved(<<>>)
              /\ last' = NoCall
              /\ UNCHANGED <<shapes, selectedIds, nextId, mode, dragStart, drawingPoints,
                             plane, aiPrompt>>

(* The remote call settles and generateShapesFromPrompt runs to its        *)
(* return; uuidv4() is called once per item of the response.               *)
generateContent_settled(outcome) ==
    LET promise == generateShapesFromPrompt(outcome)
        count == IF promise.state = "resolved" THEN Len(promise.value) ELSE 0
    IN  /\ request = Pending
        /\ Len(shapes) + count <= MaxCanvas
        /\ nextId + count - 1 <= MaxIds
        /\ request' = promise
        /\ nextId' = nextId + count
        /\ last' = [op |-> "generateShapesFromPrompt", outcome |-> outcome]
        /\ UNCHANGED <<shapes, selectedIds, mode, dragStart, drawingPoints, plane,
                       isGenerating, aiPrompt>>

(* handleGenerate after its await, run when the promise is resolved:       *)
(* newShapes.forEach(s => addShape(s)); setIsGenerating(false);            *)
(* setAiPrompt('').                                                        *)
handleGenerate_resume ==
    /\ request.state = "resolved"
    /\ shapes' = shapes \o request.value
    /\ isGenerating' = FALSE
    /\ aiPrompt' = EmptyPrompt
    /\ request' = NoRequest
    /\ last' = [op |-> "handleGenerate", newShapes |-> request.value, after |-> last]
    /\ UNCHANGED <<selectedIds, nextId, mode, dragStart, drawingPoints, plane>>

NextGen ==
    \/ \E value \in Prompts : onChangePrompt(value)
    \/ \E apiKey \in BOOLEAN : handleGenerate_submit(apiKey)
    \/ \E outcome \in RemoteOutcomes : generateContent_settled(outcome)
    \/ handleGenerate_resume
    \/ \E id \in ShapeIds : selectShape(id, FALSE)
    \/ handleDelete

SpecGen == Init /\ [][NextGen]_vars

(* The event loop runs the continuation of a resolved promise, and the     *)
(* remote call settles: it fulfils or it rejects.                          *)
FairSpecGen ==
    /\ SpecGen
    /\ WF_vars(\E outcome \in RemoteOutcomes : generateContent_settled(outcome))
    /\ WF_vars(handleGenerate_resume)

-----------------------------------------------------------------------------
(* The translate gizmo: TransformControls attached to the mesh of a        *)
(* selected shape in select mode.                                          *)

(* The rotation of the mesh object inside its group: the rotation prop of  *)
(* version 1, none in version 2.                                           *)
meshRotation(version, shape) ==
    IF version = 1 /\ shape.type # "custom" THEN <<1, 0, 0>> ELSE <<0, 0, 0>>

(* The position of the mesh object inside its group when the drag ends.    *)
GizmoPositions == { <<2, 0, 0>> }

(* ShapeRenderer.handleTransformChange on mouse up: position and rotation  *)
(* of meshRef.current go to updateShape.                                   *)
handleTransformChange(id, version, position) ==
    /\ mode = "select"
    /\ includes(selectedIds, id)
    /\ shapes' = [i \in 1..Len(shapes) |->
                    IF shapes[i].id = id
                      THEN spread(shapes[i],
                                  [position |-> position,
                                   rotation |-> meshRotation(version, shapes[i])])
                      ELSE shapes[i]]
    /\ last' = [op |-> "handleTransformChange", id |-> id]
    /\ UNCHANGED <<selectedIds, nextId, mode, dragStart, drawingPoints, plane, isGenerating, request, aiPrompt>>

NextGizmo ==
    \/ \E shape \in NewShapes(uuidv4) : addShape(shape)
    \/ \E id \in ShapeIds : \E shiftKey \in BOOLEAN : selectShape(id, shiftKey)
    \/ \E id \in ShapeIds : \E version \in RendererVersions :
          \E position \in GizmoPositions : handleTransformChange(id, version, position)

SpecGizmo == Init /\ [][NextGizmo]_vars

-----------------------------------------------------------------------------
(* The evaluator on its own: performCSG applied to a list of shapes.       *)

WithId(shape, id) == [shape EXCEPT !.id = id]

Red(shape) == spread(shape, [color |-> "#ff0000"])

Extruded(shape, depth) == spread(shape, [extrusionDepth |-> depth])

Square == drawRectangle(1, "top", <<-2, 0, -2>>, <<2, 0, 2>>)

Disc == drawCircle(2, "front", <<0, 0, 0>>, <<2, 0, 0>>)

Front == drawRectangle(2, "front", <<-2, -2, 0>>, <<2, 2, 0>>)

FrontRight == drawRectangle(2, "front", <<0, -2, 0>>, <<4, 2, 0>>)

Triangle == drawPolygon(1, "left", <<<<0, 0>>, <<6, 0>>, <<0, 6>>>>)

(* The operands explored: drawn shapes as drawn, extruded and recoloured,  *)
(* and two results of earlier boolean operations.                          *)
InputShapes ==
    { Red(Extruded(Square, 2)),
      Extruded(Disc, 2),
      Triangle,
      performCSG(<<Square, Front>>, "union").shape,
      performCSG(<<Red(Extruded(Square, 2)), FrontRight>>, "subtract").shape }

OperandLists ==
    UNION { { [i \in 1..n |-> WithId(f[i], i)] : f \in [1..n -> InputShapes] } :
            n \in 0..MaxOperands }

InitCSG ==
    /\ nextId = MaxOperands + 1
    /\ shapes \in OperandLists
    /\ selectedIds = <<>>
    /\ last = NoCall
    /\ mode = "select"
    /\ dragStart = NoDrag
    /\ drawingPoints = <<>>
    /\ plane = NoSketch
    /\ isGenerating = FALSE
    /\ request = NoRequest
    /\ aiPrompt = EmptyPrompt

(* A caller applies the exported performCSG to the whole list.             *)
callPerformCSG(type) ==
    LET result == performCSG(shapes, type)
    IN  /\ nextId <= MaxOperands + MaxCalls
        /\ last' = [op |-> "performCSG", type |-> type, operands |-> shapes,
                    matrices |-> [i \in 1..Len(shapes) |-> brushMatrix(shapes[i])],
                    result |-> result]
        /\ shapes' = result.inputs
        /\ nextId' = IF result.kind = "shape" THEN nextId + 1 ELSE nextId
        /\ UNCHANGED <<selectedIds, mode, dragStart, drawingPoints, plane, isGenerating, request, aiPrompt>>

NextCSG == \E type \in Operations : callPerformCSG(type)

SpecCSG == InitCSG /\ [][NextCSG]_vars

-----------------------------------------------------------------------------
(* Properties of the store under Spec.                                     *)

IsBooleanCall(l) == l.op = "performBoolean"

Succeeded(l) == l.op \in {"performBoolean", "performCSG"} /\ l.result.kind = "shape"

IdsOf(seq) == {seq[i] : i \in 1..Len(seq)}

RECURSIVE Without(_, _)
Without(seq, ids) ==
    IF seq = <<>> THEN <<>>
    ELSE IF Head(seq).id \in ids THEN Without(Tail(seq), ids)
    ELSE <<Head(seq)>> \o Without(Tail(seq), ids)

(* C1: a boolean operation that succeeds removes every selected shape,     *)
(* keeps every other shape unchanged and in order, appends the result as   *)
(* the one new shape and makes it the whole selection, all in one step.    *)
C1_SuccessReplacesSelection ==
    [][(IsBooleanCall(last') /\ Succeeded(last')) =>
          /\ Len(shapes') >= 1
          /\ shapes'[Len(shapes')] = last'.result.shape
          /\ SubSeq(shapes', 1, Len(shapes') - 1) = Without(shapes, IdsOf(selectedIds))
          /\ \A i \in 1..Len(shapes') : shapes'[i].id \notin IdsOf(selectedIds)
          /\ selectedIds' = <<last'.result.shape.id>>]_vars

C1_Witness ==
    /\ IsBooleanCall(last) /\ Succeeded(last)
    /\ Len(shapes) >= 2
    /\ selectedIds = <<last.result.shape.id>>

(* C2: a boolean operation that does not succeed leaves the shapes list    *)
(* and the selection exactly as they were.                                 *)
C2_FailureChangesNothing ==
    [][(IsBooleanCall(last') /\ ~Succeeded(last')) =>
          shapes' = shapes /\ selectedIds' = selectedIds]_vars

C2_Witness ==
    /\ IsBooleanCall(last) /\ last.result.kind = "throw"
    /\ Len(shapes) >= 2 /\ Len(selectedIds) >= 2

RECURSIVE InSelectionOrder(_)
InSelectionOrder(ids) ==
    IF ids = <<>> THEN <<>>
    ELSE (IF Head(ids) \in ShapeIds
            THEN <<CHOOSE s \in IdsOf(shapes) : s.id = Head(ids)>>
            ELSE <<>>) \o InSelectionOrder(Tail(ids))

(* C4: the operand list of a boolean operation is the selected shapes in   *)
(* the order of their ids in selectedIds, not in the order of the shapes   *)
(* list.                                                                   *)
C4_OperandsInSelectionOrder ==
    [][IsBooleanCall(last') => last'.operands = InSelectionOrder(selectedIds)]_vars

C4_Witness ==
    /\ IsBooleanCall(last) /\ Succeeded(last)
    /\ last.operands[1].id > last.operands[2].id

(* C7: the shape a successful boolean operation returns is a baked mesh    *)
(* with geometry data and no profile params, rotation (0,0,0), extrusion   *)
(* depth 0, visible, the colour of the first operand, and an id that no    *)
(* operand and no shape of the collection has.                             *)
C7_ResultShapeFields ==
    [][(IsBooleanCall(last') /\ Succeeded(last')) =>
          LET r == last'.result.shape
          IN  /\ r.type = "custom"
              /\ Has(r, "geometryData")
              /\ DOMAIN r \cap {"width", "height", "radius", "points"} = {}
              /\ r.rotation = <<0, 0, 0>>
              /\ r.extrusionDepth = 0
              /\ r.visible = TRUE
              /\ r.color = last'.operands[1].color
              /\ \A i \in 1..Len(last'.operands) : r.id # last'.operands[i].id
              /\ r.id \notin ShapeIds]_vars

C7_Witness ==
    /\ IsBooleanCall(last) /\ Succeeded(last)
    /\ last.operands[1].color # last.operands[2].color
    /\ Len(shapes) >= 2

-----------------------------------------------------------------------------
(* Properties of the evaluator under SpecCSG.                              *)

IsDirectCall(l) == l.op = "performCSG"

(* The solid of a shape in world space and the fold of section 4.3.        *)
Solid(shape) == worldGeometry(Brush(shape))

booleanOp(A, B, operation) ==
    CASE operation = "union" -> A \cup B
      [] operation = "subtract" -> A \ B
      [] operation = "intersect" -> A \cap B

RECURSIVE LeftFold(_, _)
LeftFold(s, operation) ==
    IF Len(s) = 1 THEN Solid(s[1])
    ELSE booleanOp(LeftFold(SubSeq(s, 1, Len(s) - 1), operation),
                   Solid(s[Len(s)]), operation)

Reverse(s) == [i \in 1..Len(s) |-> s[Len(s) + 1 - i]]

(* The baked mesh of a result moved by the result's position.              *)
ResultSolid(l) ==
    {Add3(p, l.result.shape.position) : p \in parse(l.result.shape.geometryData)}

(* Twice the centre of the bounding box; the centre of an empty box is the *)
(* origin.                                                                 *)
BoxCentre2(G) ==
    IF G = {} THEN <<0, 0, 0>>
    ELSE <<SetMin({p[1] : p \in G}) + SetMax({p[1] : p \in G}),
           SetMin({p[2] : p \in G}) + SetMax({p[2] : p \in G}),
           SetMin({p[3] : p \in G}) + SetMax({p[3] : p \in G})>>

(* C3: performCSG on a list of fewer than 2 shapes returns null, the       *)
(* failure value, and no shape, whatever the operation.                    *)
C3_TooFewOperandsFail ==
    (IsDirectCall(last) /\ Len(last.operands) < 2) =>
        (last.result.kind = "null" /\ ~Has(last.result, "shape"))

C3_Witness == IsDirectCall(last) /\ Len(last.operands) = 1

(* C5: the solid of a result is the left fold of the operands' solids      *)
(* under the operation: ((s1 op s2) op s3) ... in list order.              *)
C5_ResultIsLeftFold ==
    (IsDirectCall(last) /\ Succeeded(last)) =>
        ResultSolid(last) = LeftFold(last.operands, last.type)

C5_Witness ==
    /\ IsDirectCall(last) /\ Succeeded(last)
    /\ Len(last.operands) = 3 /\ last.type = "subtract"
    /\ ResultSolid(last) # {}
    /\ ResultSolid(last) # LeftFold(Reverse(last.operands), last.type)

(* C6: a boolean evaluation leaves every field of every input shape as it  *)
(* was, whether it returns a shape or not.                                 *)
C6_InputsUntouched ==
    [][IsDirectCall(last') =>
          /\ last'.operands = shapes
          /\ last'.result.inputs = shapes
          /\ shapes' = shapes]_vars

C6_Witness ==
    /\ IsDirectCall(last) /\ Succeeded(last)
    /\ last.result.shape.position # last.operands[1].position
    /\ \E i \in 1..Len(shapes) : shapes[i].type = "custom"

(* C8: the position of a result is the centre of the bounding box of the   *)
(* result solid in world space, the bounding box of its baked mesh is      *)
(* centred at the origin, and the mesh moved by the position is the world  *)
(* solid point for point.                                                  *)
C8_ResultIsRecentred ==
    (IsDirectCall(last) /\ Succeeded(last)) =>
        LET r == last.result.shape
            world == LeftFold(last.operands, last.type)
        IN  /\ <<2 * r.position[1], 2 * r.position[2], 2 * r.position[3]>>
                 = BoxCentre2(world)
            /\ BoxCentre2(parse(r.geometryData)) = <<0, 0, 0>>
            /\ ResultSolid(last) = world

C8_Witness ==
    /\ IsDirectCall(last) /\ Succeeded(last)
    /\ last.result.shape.position[1] % 2 = 1
    /\ parse(last.result.shape.geometryData) # {}
    /\ \E i \in 1..Len(last.operands) :
          last.operands[i].type = "custom" /\ last.operands[i].position # <<0, 0, 0>>

(* Rotations as maps of points: the base orientation of a kind and the     *)
(* user transform of a shape (rotation in the order X, Y, Z, then          *)
(* position).                                                              *)
IsParametric(kind) == kind \in {"rectangle", "circle", "polygon"}

baseOrientation(kind, v) == IF IsParametric(kind) THEN <<v[1], -v[3], v[2]>> ELSE v

turnX(q, v) == <<v[1], Cos(q) * v[2] - Sin(q) * v[3], Sin(q) * v[2] + Cos(q) * v[3]>>

turnY(q, v) == <<Cos(q) * v[1] + Sin(q) * v[3], v[2], Cos(q) * v[3] - Sin(q) * v[1]>>

turnZ(q, v) == <<Cos(q) * v[1] - Sin(q) * v[2], Sin(q) * v[1] + Cos(q) * v[2], v[3]>>

userTransform(shape, v) ==
    Add3(turnX(shape.rotation[1], turnY(shape.rotation[2], turnZ(shape.rotation[3], v))),
         shape.position)

Probes == {<<0, 0, 0>>, <<1, 0, 0>>, <<0, 1, 0>>, <<0, 0, 1>>}

Unplaced(shape) == shape.rotation = <<0, 0, 0>> /\ shape.position = <<0, 0, 0>>

(* C10: the matrix the evaluator gives a shape maps a local point to the   *)
(* user transform of its base orientation (a quarter turn about X for      *)
(* rectangle, circle and polygon, the identity for a baked mesh); for a    *)
(* shape with zero rotation and position it is the base orientation.       *)
C10_WorldMatrixIsUserAfterBase ==
    (IsDirectCall(last) /\ Len(last.operands) >= 2) =>
        \A i \in 1..Len(last.operands) :
            LET shape == last.operands[i]
                m == last.matrices[i]
            IN  /\ \A v \in Probes :
                      applyMatrix4(m, v) = userTransform(shape, baseOrientation(shape.type, v))
                /\ Unplaced(shape) =>
                      /\ m.t = <<0, 0, 0>>
                      /\ m.r = IF IsParametric(shape.type)
                                 THEN <<<<1, 0, 0>>, <<0, 0, -1>>, <<0, 1, 0>>>>
                                 ELSE <<<<1, 0, 0>>, <<0, 1, 0>>, <<0, 0, 1>>>>

C10_Witness ==
    /\ IsDirectCall(last) /\ Succeeded(last)
    /\ \E i \in 1..Len(last.operands) :
          IsParametric(last.operands[i].type) /\ Unplaced(last.operands[i])
    /\ \E i \in 1..Len(last.operands) :
          last.operands[i].type = "custom" /\ Unplaced(last.operands[i])
    /\ \E i \in 1..Len(last.operands) :
          last.operands[i].rotation[2] # 0 /\ last.operands[i].position # <<0, 0, 0>>

(* C9: a boolean operation whose fold leaves no geometry is a failure: no  *)
(* shape is returned and the store keeps its shapes and selection.         *)
C9_EmptyResultIsFailure ==
    [][(IsBooleanCall(last') /\ last'.result.kind \in {"null", "shape"}
          /\ LeftFold(last'.operands, last'.type) = {}) =>
          /\ last'.result.kind # "shape"
          /\ shapes' = shapes
          /\ selectedIds' = selectedIds]_vars

-----------------------------------------------------------------------------
(* Display and evaluation of the shapes of the store, under Spec.          *)

(* C11: for every shape of the collection the solid on screen is the solid *)
(* the evaluator builds for it: the evaluator materialises the shape and   *)
(* gives it the same geometry under the same world transform, whichever    *)
(* version of the renderer draws it.                                       *)
C11_DisplayMatchesEvaluator ==
    \A i \in 1..Len(shapes) : \A version \in RendererVersions :
        /\ ~pathThrows(shapes[i])
        /\ displayMatrix(version, shapes[i]) = brushMatrix(shapes[i])
        /\ displaySolid(version, shapes[i]) = Solid(shapes[i])

(* The failures of a boolean evaluation that the caller is to tell apart.  *)
FailureKinds ==
    {"InvalidProfile", "InsufficientOperands", "GeometryTooComplex", "EmptyResult",
     "DegenerateGeometry"}

(* C13: a boolean operation that reaches the evaluator ends with a shape   *)
(* or with a returned failure value that names its kind; it never ends     *)
(* with an exception and never with a value that names no kind.            *)
C13_FailuresAreTypedValues ==
    (IsBooleanCall(last) /\ last.result.kind # "none") =>
        \/ last.result.kind = "shape"
        \/ /\ last.result.kind = "failure"
           /\ Has(last.result, "failure")
           /\ last.result.failure \in FailureKinds

(* C18: no two shapes of the collection share an id, and the id of a shape *)
(* that enters the collection was never the id of a shape before: every id *)
(* handed out so far is below nextId, and a new id is not.                 *)
C18_IdsUniqueNeverReused ==
    [][/\ \A i, j \in 1..Len(shapes') : i # j => shapes'[i].id # shapes'[j].id
       /\ \A i \in 1..Len(shapes) : shapes[i].id < nextId
       /\ \A i \in 1..Len(shapes') :
             /\ shapes'[i].id < nextId'
             /\ shapes'[i].id \notin ShapeIds => shapes'[i].id >= nextId]_vars

C18_Witness ==
    /\ IsBooleanCall(last) /\ Succeeded(last)
    /\ Len(shapes) >= 2
    /\ \E id \in 1..(nextId - 1) : id \notin ShapeIds /\ id < shapes[1].id

(* C20: every id in selectedIds is the id of a shape of the collection.    *)
C20_SelectionNamesShapes ==
    \A i \in 1..Len(selectedIds) : selectedIds[i] \in ShapeIds

(* C14: a shape keeps its kind for as long as its id stays in the          *)
(* collection, and the result of a boolean operation enters the collection *)
(* as a custom shape under an id that no shape had.                        *)
C14_KindNeverChanges ==
    [][/\ \A i \in 1..Len(shapes) : \A j \in 1..Len(shapes') :
             shapes[i].id = shapes'[j].id => shapes'[j].type = shapes[i].type
       /\ (IsBooleanCall(last') /\ Succeeded(last')) =>
             /\ last'.result.shape.id \notin ShapeIds
             /\ last'.result.shape.type = "custom"
             /\ \E j \in 1..Len(shapes') : shapes'[j] = last'.result.shape]_vars

C14_Witness ==
    /\ IsBooleanCall(last) /\ Succeeded(last)
    /\ \E i \in 1..Len(last.operands) : last.operands[i].type # "custom"
    /\ \E i \in 1..Len(shapes) :
          shapes[i].type # "custom" /\ shapes[i].color = "#ff0000"

-----------------------------------------------------------------------------
(* Properties of the shapes that the application's handlers leave in the   *)
(* store, under SpecUI.                                                    *)

(* A profile that cannot be materialised. *)
InvalidProfile(shape) ==
    \/ shape.type = "rectangle" /\ (~Has(shape, "width") \/ ~Has(shape, "height"))
    \/ shape.type = "rectangle" /\ (shape.width <= 0 \/ shape.height <= 0)
    \/ shape.type = "circle" /\ ~Has(shape, "radius")
    \/ shape.type = "circle" /\ shape.radius <= 0
    \/ shape.type = "polygon" /\ ~Has(shape, "points")
    \/ shape.type = "polygon" /\ Len(shape.points) < 3

(* C12: a boolean operation with an operand whose profile is invalid (a    *)
(* rectangle with width <= 0 or height <= 0, a circle with radius <= 0, a  *)
(* polygon with fewer than 3 points) produces no result shape.             *)
C12_InvalidProfileFails ==
    (IsBooleanCall(last) /\ last.result.kind # "none"
        /\ \E i \in 1..Len(last.operands) : InvalidProfile(last.operands[i]))
      => last.result.kind # "shape"

ProfileFields == {"width", "height", "radius", "points", "geometryData"}

ExpectedFields(kind) ==
    CASE kind = "rectangle" -> {"width", "height"}
      [] kind = "circle" -> {"radius"}
      [] kind = "polygon" -> {"points"}
      [] kind = "custom" -> {"geometryData"}

(* C15: every shape of the collection carries the fields of its kind and   *)
(* no other: width and height, radius, points, or geometryData.            *)
C15_FieldsFollowKind ==
    \A i \in 1..Len(shapes) :
        DOMAIN shapes[i] \cap ProfileFields = ExpectedFields(shapes[i].type)

(* The names the drawing tools give. *)
DrawnNames == {"Rectangle", "Circle", "Polygon"}

(* C16: every shape made by a drawing tool, whatever the property panel    *)
(* did to it since, has a valid profile: width > 0 and height > 0, radius  *)
(* > 0, at least 3 points.                                                 *)
C16_DrawnProfilesValid ==
    \A i \in 1..Len(shapes) :
        shapes[i].name \in DrawnNames => ~InvalidProfile(shapes[i])

(* C17: the extrusionDepth of every shape of the collection is >= 0.       *)
C17_DepthNonNegative ==
    \A i \in 1..Len(shapes) : shapes[i].extrusionDepth >= 0

(* C21: a boolean operation started from an enabled toolbar button (two or *)
(* more selected ids) resolves at least 2 operand shapes and calls the     *)
(* evaluator.                                                              *)
C21_EnabledButtonEvaluates ==
    [][(IsBooleanCall(last') /\ Len(selectedIds) >= 2) =>
          /\ Len(last'.operands) >= 2
          /\ last'.result.kind # "none"]_vars

-----------------------------------------------------------------------------
(* The translate gizmo, under SpecGizmo.                                   *)

(* C22: committing a drag of the translate gizmo changes the position of   *)
(* the dragged shape and nothing else: every other field of that shape and *)
(* every other shape stay as they were.                                    *)
C22_GizmoMovesOnly ==
    [][last'.op = "handleTransformChange" =>
          /\ Len(shapes') = Len(shapes)
          /\ \A i \in 1..Len(shapes) :
                IF shapes[i].id = last'.id
                  THEN shapes'[i] = [shapes[i] EXCEPT !.position = shapes'[i].position]
                  ELSE shapes'[i] = shapes[i]]_vars

-----------------------------------------------------------------------------
(* The drawing plane, under SpecPlane.                                     *)

(* What a right-click still has to back out of: a drag in progress, the    *)
(* pending points of a polygon, a tool other than select.                  *)
PendingSteps ==
    (IF plane.isDrawing THEN 1 ELSE 0)
      + (IF drawingPoints # <<>> THEN 1 ELSE 0)
      + (IF mode # "select" THEN 1 ELSE 0)

(* C23: a right-click on the drawing plane does exactly one thing, the     *)
(* first that applies: it cancels the drag in progress, else it clears the *)
(* pending polygon points, else it returns the tool to select.  It never   *)
(* adds a shape.  Each click removes one of at most three things to back   *)
(* out of, so three consecutive right-clicks always reach select mode with *)
(* no drag in progress and no pending points.                              *)
C23_RightClickBacksOut ==
    [][last'.op = "handleRightClick" =>
          /\ shapes' = shapes
          /\ IF plane.isDrawing
               THEN /\ plane' = NoSketch
                    /\ drawingPoints' = drawingPoints
                    /\ mode' = mode
               ELSE IF Len(drawingPoints) > 0
                 THEN /\ drawingPoints' = <<>>
                      /\ plane' = plane
                      /\ mode' = mode
                 ELSE /\ mode' = "select"
                      /\ drawingPoints' = <<>>
                      /\ plane' = plane
          /\ PendingSteps <= 3
          /\ PendingSteps' = Max2(PendingSteps - 1, 0)]_vars

(* A right-click cancelled a drag while polygon points were pending: two   *)
(* more right-clicks are needed to reach select.                           *)
C23_Witness ==
    /\ last.op = "handleRightClick"
    /\ ~plane.isDrawing
    /\ drawingPoints # <<>>
    /\ mode = "draw_poly"
    /\ Len(shapes) > 0

-----------------------------------------------------------------------------
(* AI generation, under FairSpecGen.                                       *)

(* C24: every generation request that handleGenerate started finishes with *)
(* isGenerating false again, whatever the remote call did: the promise of  *)
(* generateShapesFromPrompt is never rejected, a rejected call and an      *)
(* unusable response resolve it to the empty list, and the continuation of *)
(* handleGenerate leaves the shapes as they are when the list is empty.    *)
C24_GenerationFinishes ==
    /\ [](request.state # "rejected")
    /\ [][(last'.op = "generateShapesFromPrompt"
             /\ (last'.outcome.kind = "rejected"
                   \/ last'.outcome.text.kind # "array"))
            => request' = Resolved(<<>>)]_vars
    /\ [][(last'.op = "handleGenerate" /\ last'.newShapes = <<>>)
            => shapes' = shapes]_vars
    /\ (isGenerating ~> ~isGenerating)

(* A request whose remote call was rejected has finished, some shapes      *)
(* being on the canvas.                                                    *)
C24_Witness ==
    /\ last.op = "handleGenerate"
    /\ last.after.op = "generateShapesFromPrompt"
    /\ last.after.outcome.kind = "rejected"
    /\ last.newShapes = <<>>
    /\ ~isGenerating
    /\ Len(shapes) > 0

====
